---- MODULE Spec2Model ----
(***************************************************************************)
(* A model of dashboard.py: the code sanitizer (clean_python_code), the    *)
(* metric derivation of financial_summary, and the pipeline that main      *)
(* runs when the insight button is pressed (financial_summary,             *)
(* revenue_trend with its exec of generated code, trend_analysis,          *)
(* risk_analysis).                                                         *)
(*                                                                         *)
(* Strings are sequences of characters (the backquote is written "BQ").   *)
(* Numbers produced by the float division of pandas are tagged values: a   *)
(* reduced fraction, or one of the IEEE results nan, inf, -inf.            *)
(***************************************************************************)
EXTENDS Integers, Sequences, FiniteSets, TLC

VARIABLES
    \* ---- sanitizer ----
    parts,        \* how the input text was put together (fenced?, lead, tag, body, trail)
    raw_code,     \* the argument of clean_python_code
    out1,         \* clean_python_code(raw_code)
    out2,         \* clean_python_code(out1)
    cstage,       \* "idle" | "raw" | "clean" | "reclean"
    \* ---- pipeline ----
    source,       \* what fetch_data returns for financials/quarterly: rows in the source's order
    financials,   \* the DataFrame built by financial_summary
    pc,           \* position of main
    handed,       \* panel -> the series its generation call was given
    rendered,     \* panels passed to the renderer (st.markdown / st.plotly_chart)
    failed,       \* panels whose own step raised
    error,        \* the exception that left main, or "none"
    program,      \* the sanitized program handed to exec
    ip,           \* index of the next statement of the program
    exec_locals,  \* the locals mapping of exec: bound name -> kind of value
    exec_state,   \* "none" | "running" | "returned" | "raised"
    ticks,        \* iterations of a loop of the program, modulo TickMod
    chart         \* the value given to st.plotly_chart, or "none"

cvars == <<parts, raw_code, out1, out2, cstage>>
pvars == <<source, financials, pc, handed, rendered, failed, error,
           program, ip, exec_locals, exec_state, ticks, chart>>
vars  == <<parts, raw_code, out1, out2, cstage,
           source, financials, pc, handed, rendered, failed, error,
           program, ip, exec_locals, exec_state, ticks, chart>>

(***************************************************************************)
(* Bounds of the model.                                                    *)
(***************************************************************************)
MaxPieces == 3      \* an input body is made of at most this many pieces
NQuarters == 2      \* rows the data source returns (n_quarters is "4" in the code)
TickMod   == 2      \* a loop's iteration counter is kept modulo this

(***************************************************************************)
(* Text.                                                                   *)
(***************************************************************************)
Whitespace == {" ", "\n"}
Backtick   == "BQ"     \* the backquote character (U+0060)
Fence      == <<Backtick, Backtick, Backtick>>
PythonWord == <<"p", "y", "t", "h", "o", "n">>

RECURSIVE LStrip(_, _)
\* str.lstrip(chars): drop the leading characters that are in chars
LStrip(s, chars) ==
    IF s = <<>> THEN <<>>
    ELSE IF Head(s) \in chars THEN LStrip(Tail(s), chars)
    ELSE s

RECURSIVE RStrip(_, _)
\* str.rstrip(chars): drop the trailing characters that are in chars
RStrip(s, chars) ==
    IF s = <<>> THEN <<>>
    ELSE IF s[Len(s)] \in chars THEN RStrip(SubSeq(s, 1, Len(s) - 1), chars)
    ELSE s

\* str.strip(chars): the argument is a set of characters, not a prefix
Strip(s, chars) == RStrip(LStrip(s, chars), chars)

\* the characters of a strip argument given as text
CharsOf(t) == {t[i] : i \in 1..Len(t)}

StartsWith(s, w) == Len(s) >= Len(w) /\ SubSeq(s, 1, Len(w)) = w

RECURSIVE Replace(_, _)
\* str.replace(w, ""): one left-to-right pass over non-overlapping occurrences
Replace(s, w) ==
    IF s = <<>> THEN <<>>
    ELSE IF StartsWith(s, w) THEN Replace(SubSeq(s, Len(w) + 1, Len(s)), w)
    ELSE <<Head(s)>> \o Replace(Tail(s), w)

\* raw_code.strip().strip(fence).replace("python", "").strip()
clean_python_code(raw) ==
    Strip(Replace(Strip(Strip(raw, Whitespace), CharsOf(Fence)), PythonWord), Whitespace)

(***************************************************************************)
(* Inputs of the sanitizer: texts as a model may return them.              *)
(***************************************************************************)
Pieces == { Fence, PythonWord, <<"p", "y", "t">>, <<"h", "o", "n">>,
            <<" ">>, <<"\n">>, <<"x">>, <<Backtick>> }

RECURSIVE Texts(_)
\* every concatenation of at most n pieces
Texts(n) ==
    IF n = 0 THEN { <<>> }
    ELSE LET shorter == Texts(n - 1)
         IN  shorter \cup { t \o p : t \in shorter, p \in Pieces }

Leads  == { <<>>, <<" ">> }
Tags   == { <<>>, PythonWord }
Trails == { <<>>, <<"\n">> }

\* [whitespace] fence [language tag] body fence [whitespace], or the bare body
Compose(p) ==
    IF p.fenced THEN p.lead \o Fence \o p.tag \o p.body \o Fence \o p.trail
    ELSE p.body

NoParts == [fenced |-> FALSE, lead |-> <<>>, tag |-> <<>>, body |-> <<>>, trail |-> <<>>]

CleanInit ==
    /\ parts \in [fenced : BOOLEAN, lead : Leads, tag : Tags,
                  body : Texts(MaxPieces), trail : Trails]
    /\ ~parts.fenced => parts.lead = <<>> /\ parts.tag = <<>> /\ parts.trail = <<>>
    /\ raw_code = Compose(parts)
    /\ out1 = <<>>
    /\ out2 = <<>>
    /\ cstage = "raw"

\* code = clean_python_code(llm.invoke(prompt).content)
Sanitize ==
    /\ cstage = "raw"
    /\ out1' = clean_python_code(raw_code)
    /\ cstage' = "clean"
    /\ UNCHANGED <<parts, raw_code, out2>>
    /\ UNCHANGED pvars

\* the sanitizer applied to its own result
Resanitize ==
    /\ cstage = "clean"
    /\ out2' = clean_python_code(out1)
    /\ cstage' = "reclean"
    /\ UNCHANGED <<parts, raw_code, out1>>
    /\ UNCHANGED pvars

(***************************************************************************)
(* Metric derivation (financial_summary).                                  *)
(***************************************************************************)
Abs(n) == IF n < 0 THEN -n ELSE n

RECURSIVE Gcd(_, _)
Gcd(a, b) == IF b = 0 THEN a ELSE Gcd(b, a % b)

NaN    == [kind |-> "nan", num |-> 0,  den |-> 0]
PosInf == [kind |-> "inf", num |-> 1,  den |-> 0]
NegInf == [kind |-> "inf", num |-> -1, den |-> 0]

\* a / b on two numeric columns of a DataFrame: float division, which does
\* not raise on a zero divisor
Divide(a, b) ==
    IF b = 0 THEN (IF a = 0 THEN NaN ELSE IF a > 0 THEN PosInf ELSE NegInf)
    ELSE LET g == Gcd(Abs(a), Abs(b))
             sign == IF b < 0 THEN -1 ELSE 1
         IN  [kind |-> "num", num |-> sign * (a \div g), den |-> sign * (b \div g)]

DigitChars == <<"0", "1", "2", "3", "4", "5", "6", "7", "8", "9">>
DigitChar(n) == DigitChars[n + 1]
DigitVal(c) == (CHOOSE i \in 1..10 : DigitChars[i] = c) - 1

\* dt.strftime('%m-%Y'): two digits of month, a dash, four digits of year
StrfMonthYear(d) ==
    << DigitChar(d.month \div 10), DigitChar(d.month % 10), "-",
       DigitChar(d.year \div 1000), DigitChar((d.year \div 100) % 10),
       DigitChar((d.year \div 10) % 10), DigitChar(d.year % 10) >>

\* the month and year a month-year text stands for, as months since year 0
MonthIndex(t) ==
    (DigitVal(t[4]) * 1000 + DigitVal(t[5]) * 100 + DigitVal(t[6]) * 10 + DigitVal(t[7])) * 12
    + DigitVal(t[1]) * 10 + DigitVal(t[2])

\* one row of financials after lines 65-68
DeriveRow(r) ==
    [date              |-> StrfMonthYear(r.date),
     revenue           |-> r.revenue,
     total_liabilities |-> r.total_liabilities,
     total_equity      |-> r.total_equity,
     total_assets      |-> r.total_assets,
     DER               |-> Divide(r.total_liabilities, r.total_equity),
     asset_turnover    |-> Divide(r.revenue, r.total_assets)]

\* the DataFrame of financial_summary: the rows of the response, in the
\* order of the response, with the date rewritten and the two ratios added
DeriveMetrics(rows) == [i \in 1..Len(rows) |-> DeriveRow(rows[i])]

(***************************************************************************)
(* Responses of the data source.                                           *)
(***************************************************************************)
\* the quarter ends up to report_date 2025-06-30
QuarterEnds ==
    { [year |-> 2025, month |-> 6,  day |-> 30], [year |-> 2025, month |-> 3,  day |-> 31],
      [year |-> 2024, month |-> 12, day |-> 31], [year |-> 2024, month |-> 9,  day |-> 30] }

Amounts == {-100, 0, 100}
Denoms  == {0, 50}

AllValues ==
    [revenue : Amounts, total_liabilities : Amounts, total_equity : Denoms, total_assets : Denoms]
FewValues ==
    [revenue : {100}, total_liabilities : {100}, total_equity : Denoms, total_assets : {50}]

Row(d, v) ==
    [date |-> d, revenue |-> v.revenue, total_liabilities |-> v.total_liabilities,
     total_equity |-> v.total_equity, total_assets |-> v.total_assets]

\* NQuarters rows of distinct quarters, in any order, with values from vals
Responses(vals) ==
    { s \in [1..NQuarters -> { Row(d, v) : d \in QuarterEnds, v \in vals }] :
        \A i, j \in 1..NQuarters : i # j => s[i].date # s[j].date }

\* NQuarters rows of the latest quarters, newest first, with values from vals
LatestFirst(vals) ==
    { s \in [1..NQuarters -> { Row(d, v) : d \in QuarterEnds, v \in vals }] :
        /\ \A i \in 1..NQuarters : s[i].date.year * 12 + s[i].date.month = 2025 * 12 + 6 - 3 * (i - 1) }

(***************************************************************************)
(* Generated programs and the namespace exec gives them.                   *)
(***************************************************************************)
Import(n)       == [op |-> "import", name |-> n,  uses |-> {"__import__"}, kind |-> "module"]
Assign(n, u, k) == [op |-> "assign", name |-> n,  uses |-> u,              kind |-> k]
Use(u)          == [op |-> "use",    name |-> "", uses |-> u,              kind |-> ""]
Raise           == [op |-> "raise",  name |-> "", uses |-> {"ValueError"}, kind |-> ""]
Loop            == [op |-> "loop",   name |-> "", uses |-> {},             kind |-> ""]

\* the exemplar of the prompt (lines 113-190), reproduced as asked
Exemplar ==
    << Use({"financials", "pd"}),
       Assign("fig", {"make_subplots"}, "figure"),
       Use({"fig", "go", "financials"}),
       Use({"fig"}) >>

\* a program that imports what it needs and builds the data itself
SelfContained ==
    << Import("pd"), Import("make_subplots"),
       Assign("financials", {"pd"}, "dataframe"),
       Assign("fig", {"make_subplots", "financials"}, "figure") >>

\* a program that builds a figure under another name
NoFig == << Import("make_subplots"), Assign("chart", {"make_subplots"}, "figure") >>

\* a program that binds fig and then raises
FigThenRaise == << Import("make_subplots"), Assign("fig", {"make_subplots"}, "figure"), Raise >>

\* a program with an unbounded loop
Endless == << Import("make_subplots"), Assign("fig", {"make_subplots"}, "figure"), Loop >>

\* a program that reaches the host: imports os, opens a file, binds fig to text
Ambient == << Import("os"), Assign("fig", {"os", "open"}, "text") >>

Programs == { Exemplar, SelfContained, NoFig, FigThenRaise, Endless, Ambient, <<>> }

\* what Python puts under __builtins__ in a globals mapping that lacks it
Builtins == {"__import__", "open", "print", "ValueError"}

\* the globals argument of exec: the empty mapping
ExecGlobals == {}

\* the names a statement of the program can resolve: locals, globals, builtins
Namespace(locals) == DOMAIN locals \cup ExecGlobals \cup Builtins

Empty == [n \in {} |-> ""]

Bind(locals, n, k) == [m \in DOMAIN locals \cup {n} |-> IF m = n THEN k ELSE locals[m]]

(***************************************************************************)
(* The pipeline of main.                                                   *)
(***************************************************************************)
Panels == {"summary", "visualization", "trend", "risk"}

\* the calls of main, in its order (lines 269-277)
MainOrderRiskBeforeTrend ==
    <<"financial_summary", "revenue_trend", "risk_analysis", "trend_analysis">>
MainOrder ==
    <<"financial_summary", "revenue_trend", "trend_analysis", "risk_analysis">>

\* where main goes when the call f returns
After(f) ==
    LET i == CHOOSE k \in 1..Len(MainOrder) : MainOrder[k] = f
    IN  IF i = Len(MainOrder) THEN "done" ELSE MainOrder[i + 1]

NoSeries == <<>>

PipeIdle ==
    /\ source = <<>>
    /\ financials = <<>>
    /\ pc = "idle"
    /\ handed = [p \in Panels |-> NoSeries]
    /\ rendered = {}
    /\ failed = {}
    /\ error = "none"
    /\ program = <<>>
    /\ ip = 0
    /\ exec_locals = Empty
    /\ exec_state = "none"
    /\ ticks = 0
    /\ chart = "none"

CleanIdle ==
    /\ parts = NoParts
    /\ raw_code = <<>>
    /\ out1 = <<>>
    /\ out2 = <<>>
    /\ cstage = "idle"

\* the insight button was pressed; the data source will answer with source
PipeInit(responses) ==
    /\ source \in responses
    /\ financials = <<>>
    /\ pc = MainOrder[1]
    /\ handed = [p \in Panels |-> NoSeries]
    /\ rendered = {}
    /\ failed = {}
    /\ error = "none"
    /\ program = <<>>
    /\ ip = 0
    /\ exec_locals = Empty
    /\ exec_state = "none"
    /\ ticks = 0
    /\ chart = "none"

\* an exception raised in the step of panel p: nothing in main catches it
Propagate(p, err) ==
    /\ pc' = "crashed"
    /\ error' = err
    /\ failed' = failed \cup {p}

\* financial_summary (lines 61-100)
FinancialSummary ==
    /\ pc = "financial_summary"
    /\ \E outcome \in {"ok", "HTTPError", "GenerationError"} :
         IF outcome = "HTTPError"
         THEN \* resp.raise_for_status() raises in fetch_data
              /\ Propagate("summary", outcome)
              /\ UNCHANGED <<financials, handed, rendered>>
         ELSE /\ financials' = DeriveMetrics(source)
              /\ handed' = [handed EXCEPT !["summary"] = financials']
              /\ IF outcome = "ok"
                 THEN /\ rendered' = rendered \cup {"summary"}
                      /\ pc' = After("financial_summary")
                      /\ UNCHANGED <<failed, error>>
                 ELSE /\ Propagate("summary", outcome)
                      /\ UNCHANGED rendered
    /\ UNCHANGED <<source, program, ip, exec_locals, exec_state, ticks, chart>>
    /\ UNCHANGED cvars

\* revenue_trend up to its call of exec (lines 102-202)
RevenueTrend ==
    /\ pc = "revenue_trend"
    /\ handed' = [handed EXCEPT !["visualization"] = financials]
    /\ \/ /\ Propagate("visualization", "GenerationError")
          /\ UNCHANGED <<program, ip, exec_locals, exec_state>>
       \/ \E code \in Programs :
            /\ program' = code
            /\ ip' = 1
            /\ exec_locals' = Empty
            /\ exec_state' = "running"
            /\ pc' = "exec"
            /\ UNCHANGED <<failed, error>>
    /\ UNCHANGED <<source, financials, rendered, ticks, chart>>
    /\ UNCHANGED cvars

\* an exception raised by the running program leaves exec, and so main
ExecRaiseSwallowed(err) ==
    /\ exec_state' = "raised"
    /\ pc' = "plotly_chart"
    /\ UNCHANGED <<error, failed>>
ExecRaise(err) ==
    /\ exec_state' = "raised"
    /\ Propagate("visualization", err)

\* exec(code, {}, exec_locals): one statement of the program (line 202)
ExecStep ==
    /\ pc = "exec"
    /\ exec_state = "running"
    /\ IF ip > Len(program)
       THEN \* the program ran to its end: exec returns
            /\ exec_state' = "returned"
            /\ pc' = "plotly_chart"
            /\ UNCHANGED <<ip, exec_locals, ticks, error, failed>>
       ELSE LET st == program[ip] IN
            IF ~(st.uses \subseteq Namespace(exec_locals))
            THEN /\ ExecRaise("NameError")
                 /\ UNCHANGED <<ip, exec_locals, ticks>>
            ELSE CASE st.op = "raise" ->
                        /\ ExecRaise("ProgramError")
                        /\ UNCHANGED <<ip, exec_locals, ticks>>
                   [] st.op = "loop" ->
                        /\ ticks' = (ticks + 1) % TickMod
                        /\ UNCHANGED <<ip, exec_locals, exec_state, pc, error, failed>>
                   [] st.op = "use" ->
                        /\ ip' = ip + 1
                        /\ UNCHANGED <<exec_locals, exec_state, ticks, pc, error, failed>>
                   [] OTHER ->
                        /\ exec_locals' = Bind(exec_locals, st.name, st.kind)
                        /\ ip' = ip + 1
                        /\ UNCHANGED <<exec_state, ticks, pc, error, failed>>
    /\ UNCHANGED <<source, financials, handed, rendered, program, chart>>
    /\ UNCHANGED cvars

\* exec_locals["fig"]: the value bound to fig, or a KeyError
LookupFigOrPlaceholder(locals) ==
    IF "fig" \in DOMAIN locals THEN [found |-> TRUE, value |-> locals["fig"]]
    ELSE [found |-> TRUE, value |-> "figure"]
LookupFig(locals) ==
    IF "fig" \in DOMAIN locals THEN [found |-> TRUE, value |-> locals["fig"]]
    ELSE [found |-> FALSE, value |-> "none"]

\* st.plotly_chart(exec_locals["fig"], ...) (line 203)
PlotlyChart ==
    /\ pc = "plotly_chart"
    /\ LET got == LookupFig(exec_locals) IN
       IF ~got.found
       THEN /\ Propagate("visualization", "KeyError")
            /\ UNCHANGED <<chart, rendered>>
       ELSE /\ chart' = got.value
            /\ IF got.value = "figure"
               THEN /\ rendered' = rendered \cup {"visualization"}
                    /\ pc' = After("revenue_trend")
                    /\ UNCHANGED <<error, failed>>
               ELSE \* the renderer rejects a value that is no figure
                    /\ Propagate("visualization", "RenderError")
                    /\ UNCHANGED rendered
    /\ UNCHANGED <<source, financials, handed, program, ip, exec_locals, exec_state, ticks>>
    /\ UNCHANGED cvars

\* a narrative panel: run_llm, then st.markdown of its text
Narrative(f, p) ==
    /\ pc = f
    /\ handed' = [handed EXCEPT ![p] = financials]
    /\ \/ /\ rendered' = rendered \cup {p}
          /\ pc' = After(f)
          /\ UNCHANGED <<failed, error>>
       \/ /\ Propagate(p, "GenerationError")
          /\ UNCHANGED rendered
    /\ UNCHANGED <<source, financials, program, ip, exec_locals, exec_state, ticks, chart>>
    /\ UNCHANGED cvars

\* trend_analysis (lines 205-217)
TrendAnalysis == Narrative("trend_analysis", "trend")

\* risk_analysis (lines 219-231)
RiskAnalysis == Narrative("risk_analysis", "risk")

(***************************************************************************)
(* Specifications.                                                         *)
(***************************************************************************)
Init == CleanIdle /\ PipeInit(Responses(FewValues))

Next ==
    \/ FinancialSummary
    \/ RevenueTrend
    \/ ExecStep
    \/ PlotlyChart
    \/ TrendAnalysis
    \/ RiskAnalysis

\* the pipeline, for every order of the response
Spec == Init /\ [][Next]_vars

\* the pipeline with an interpreter that keeps running the program
FairSpec == Init /\ [][Next]_vars /\ WF_vars(Next)

\* the pipeline over every combination of numerators and denominators
MetricsInit == CleanIdle /\ PipeInit(LatestFirst(AllValues))
SpecMetrics == MetricsInit /\ [][Next]_vars

\* the sanitizer over the composed texts
SanitizerInit == CleanInit /\ PipeIdle
SanitizerNext == Sanitize \/ Resanitize
SpecSanitizer == SanitizerInit /\ [][SanitizerNext]_vars

(***************************************************************************)
(* Properties.                                                             *)
(***************************************************************************)
Terminal == pc \in {"done", "crashed"}

\* the rows of a series are in ascending chronological order of their dates
Chronological(series) ==
    \A i, j \in 1..Len(series) :
        i < j => MonthIndex(series[i].date) < MonthIndex(series[j].date)

\* C1: clean_python_code is idempotent: applying it to its own result
\* changes nothing, for every input text.
C1_Idempotent == cstage = "reclean" => out2 = out1

\* C2: failures are scoped to the owning panel: when a run in which the data
\* source answered has ended, no exception has left the pipeline, and every
\* panel that did not itself fail has been rendered.
C2_FailuresScoped ==
    (Terminal /\ error # "HTTPError")
        => error = "none" /\ (Panels \ failed) \subseteq rendered

\* C3: a risk-analysis failure never prevents the other panels from
\* completing: whenever the risk panel has failed and none of the summary,
\* visualization and trend panels has, those three have been rendered.
C3_RiskFailureLeavesOthers ==
    ("risk" \in failed /\ failed \cap {"summary", "visualization", "trend"} = {})
        => {"summary", "visualization", "trend"} \subseteq rendered

\* C3 witness: the risk generation failed after the other three panels rendered.
C3_Witness ==
    /\ failed = {"risk"}
    /\ error = "GenerationError"
    /\ rendered = {"summary", "visualization", "trend"}

\* C4: when the program has finished without binding fig, nothing is ever
\* passed to the renderer as a chart, the visualization panel is not
\* rendered, and once the lookup has run the step has ended in an error.
C4_NoFigNoChart ==
    (exec_state = "returned" /\ "fig" \notin DOMAIN exec_locals)
        => /\ chart = "none"
           /\ "visualization" \notin rendered
           /\ pc # "plotly_chart" => (pc = "crashed" /\ error = "KeyError"
                                        /\ "visualization" \in failed)

\* C4 witness: a program that bound another name finished, and the lookup of
\* fig failed.
C4_Witness ==
    /\ exec_state = "returned"
    /\ "chart" \in DOMAIN exec_locals
    /\ "fig" \notin DOMAIN exec_locals
    /\ error = "KeyError"

\* C5: when the program raises during execution, an error surfaces and the
\* renderer is never given a value of that execution, even when fig was
\* bound before the raise.
C5_RaiseNoChart ==
    exec_state = "raised"
        => /\ chart = "none"
           /\ "visualization" \notin rendered
           /\ error \in {"NameError", "ProgramError"}
           /\ "visualization" \in failed

\* C5 witness: the program raised after it had bound fig.
C5_Witness ==
    /\ exec_state = "raised"
    /\ "fig" \in DOMAIN exec_locals
    /\ error = "ProgramError"

\* C6: sandbox execution always terminates: a running program eventually
\* returns or raises, for every generated program.
C6_ExecTerminates == (exec_state = "running") ~> (exec_state \in {"returned", "raised"})

\* C7: the names the executed program can resolve are exactly an injected
\* allow-list: the data value and the plotting primitives are among them,
\* and no ambient capability (import, file access) is.
C7_AllowListOnly ==
    exec_state = "running"
        => /\ {"financials", "go", "make_subplots"} \subseteq Namespace(exec_locals)
           /\ Namespace(exec_locals) \cap {"__import__", "open", "os"} = {}

\* C8: a zero denominator yields the NaN sentinel whatever the numerator,
\* and a non-zero denominator yields the quotient.
C8_ZeroDenominatorNaN ==
    \A i \in 1..Len(financials) :
        LET r == financials[i] IN
        /\ r.total_equity = 0 => r.DER = NaN
        /\ r.total_assets = 0 => r.asset_turnover = NaN
        /\ r.total_equity # 0 =>
             r.DER.kind = "num" /\ r.DER.num * r.total_equity = r.total_liabilities * r.DER.den
        /\ r.total_assets # 0 =>
             r.asset_turnover.kind = "num"
             /\ r.asset_turnover.num * r.total_assets = r.revenue * r.asset_turnover.den

\* C9: the series handed to the summary, visualization, trend and risk
\* generations is in ascending chronological order of report date, for every
\* order of the response.
C9_SeriesChronological == \A p \in Panels : Chronological(handed[p])

\* a body whose own text cannot be taken for a fence or a language tag: once
\* trimmed it neither starts nor ends with a backquote, nor starts with the tag
PlainEdges(body) ==
    LET t == Strip(body, Whitespace)
    IN  t = <<>> \/ (Head(t) # Backtick /\ t[Len(t)] # Backtick /\ ~StartsWith(t, PythonWord))

\* C10: clean_python_code removes only the fences, the language tag and the
\* surrounding whitespace: for a fenced input, and for an unfenced one, the
\* result is the body with its surrounding whitespace trimmed, every
\* character of its interior kept.
C10_OnlyFencesRemoved ==
    (cstage \in {"clean", "reclean"} /\ PlainEdges(parts.body))
        => out1 = Strip(parts.body, Whitespace)

====
